---- MODULE Spec2Model ----
(***************************************************************************)
(* The CandidatesAdmin view of frontend/app/routes/admin.candidates.jsx:   *)
(* its eight useState cells, the requests it has in flight, and one action *)
(* per event handler or await continuation.                                *)
(*                                                                         *)
(* Conventions.  Array indices are 1-based here and 0-based in the source. *)
(* A JavaScript value that may be null/undefined is None or Some(v).       *)
(* Strings that the code inspects (file names, content types, option       *)
(* values) are sequences of tokens, so that matching and parsing are       *)
(* computed rather than assumed.                                           *)
(***************************************************************************)
EXTENDS Integers, Sequences, FiniteSets, TLC

VARIABLES
    candidates,          \* useState([])      line 6
    loading,             \* useState(true)    line 7
    error,               \* useState(null)    line 8
    uploadStatus,        \* useState(null)    line 9
    isUploading,         \* useState(false)   line 10
    showDuplicateModal,  \* useState(false)   line 11
    duplicateData,       \* useState(null)    line 12
    duplicateDecisions,  \* useState({})      line 13
    fetchPending,        \* fetchCandidates is awaiting api.get (line 22)
    uploadReq,           \* handleFileUpload runs awaiting api.uploadFile (line 72)
    resolveReq,          \* handleDuplicateResolution runs awaiting api.post (line 123)
    refreshReq,          \* refreshCandidates runs awaiting api.get (line 40)
    nUploads,            \* history: upload requests issued so far
    nResolves,           \* history: resolve-duplicates requests issued so far
    refreshLog,          \* history: the issuer of every refresh GET, in order
    recv,                \* history: the latest duplicates array an upload returned
    resolved,            \* history: uploads whose array a resolve request settled successfully
    clean,               \* history: uploads answered successfully without duplicates
    last                 \* history: the handler step taken last

vars == <<candidates, loading, error, uploadStatus, isUploading, showDuplicateModal,
          duplicateData, duplicateDecisions, fetchPending, uploadReq, resolveReq,
          refreshReq, nUploads, nResolves, refreshLog, recv, resolved, clean, last>>

\* ------------------------------------------------------------------ bounds

\* Upload and resolve-duplicates requests issued in one run.
MaxRequests == 3

\* ------------------------------------------------------------------ values

None == [some |-> FALSE]
Some(v) == [some |-> TRUE, val |-> v]

\* JavaScript truthiness of an optional string: null and "" are falsy.
Truthy(o) == o.some /\ o.val # ""

\* a || b on strings
OrElse(a, b) == IF Truthy(a) THEN a.val ELSE b

\* ------------------------------------------------------------------ inputs

\* File names the picker can hand over, one token per character.
FileNames ==
    { <<"r", ".", "c", "s", "v">>,
      <<"R", ".", "C", "S", "V">>,
      <<"l", ".", "X", "l", "s", "x">>,
      <<"l", ".", "x", "l", "s", "x">>,
      <<"l", ".", "x", "l", "s">>,
      <<"n", ".", "t", "x", "t">>,
      <<"c", "s", "v">>,
      <<"r", ".", "c", "s", "v", ".", "b", "a", "k">> }

\* Existing candidates, as far as the view reads them: the id.
Ann == [name |-> "Ann", email |-> "ann@x.org"]
Bob == [name |-> "Bob", email |-> "bob@x.org"]
RowOne == [new |-> Ann, existing |-> << [id |-> 7] >>]
RowTwo == [new |-> Bob, existing |-> << [id |-> 7], [id |-> 12] >>]

\* The duplicates arrays an upload response can carry.
DupArrays == { <<RowTwo>>, <<RowOne, RowTwo>> }

\* Bodies of GET /candidates/: an array of candidates, or an error object.
CandidateBodies ==
    { [isArray |-> TRUE, items |-> << >>],
      [isArray |-> TRUE, items |-> << [id |-> 7] >>],
      [isArray |-> FALSE, items |-> << >>] }

\* What api.get can deliver: a rejected promise, or a Response whose body
\* may or may not parse as JSON, with a success or non-success status.
GetResponses ==
    { [kind |-> "throw", message |-> "Failed to fetch"] }
    \cup { [kind |-> "response", ok |-> TRUE, parses |-> TRUE, body |-> b] :
             b \in { c \in CandidateBodies : c.isArray } }
    \cup { [kind |-> "response", ok |-> FALSE, parses |-> TRUE, body |-> b] :
             b \in { c \in CandidateBodies : ~c.isArray } }
    \cup { [kind |-> "response", ok |-> FALSE, parses |-> FALSE,
            body |-> [isArray |-> FALSE, items |-> << >>]] }

JsonSyntaxError == "Unexpected token < in JSON at position 0"

\* Content types, as sequences of the tokens contentType.includes looks for.
JsonType == <<"application/json">>
JsonUtf8Type == <<"application/json", "; charset=utf-8">>
HtmlType == <<"text/html">>

\* Bodies of POST /candidates/upload and /candidates/resolve-duplicates.
OkBody(s, e, d) ==
    [success |-> s, errors |-> e, duplicates |-> d, error |-> None]
ErrBody(m) ==
    [success |-> 0, errors |-> 0, duplicates |-> None, error |-> m]

UploadResponses ==
    { [kind |-> "throw", message |-> m] : m \in {"Failed to fetch", ""} }
    \cup { [kind |-> "response", ctype |-> c, ok |-> k, parses |-> FALSE,
            body |-> ErrBody(None)] :
             c \in {None, Some(HtmlType)}, k \in BOOLEAN }
    \cup { [kind |-> "response", ctype |-> Some(JsonType), ok |-> FALSE,
            parses |-> FALSE, body |-> ErrBody(None)] }
    \cup { [kind |-> "response", ctype |-> Some(c), ok |-> FALSE, parses |-> TRUE,
            body |-> ErrBody(m)] :
             c \in {JsonType, JsonUtf8Type},
             m \in {None, Some(""), Some("Missing Email column")} }
    \cup { [kind |-> "response", ctype |-> Some(JsonType), ok |-> TRUE,
            parses |-> TRUE, body |-> OkBody(2, 1, d)] :
             d \in {None, Some(<< >>)} \cup { Some(a) : a \in DupArrays } }

ResolveResponses ==
    { [kind |-> "throw", message |-> m] : m \in {"Failed to fetch", ""} }
    \cup { [kind |-> "response", ok |-> FALSE, parses |-> FALSE, body |-> ErrBody(None)] }
    \cup { [kind |-> "response", ok |-> FALSE, parses |-> TRUE, body |-> ErrBody(m)] :
             m \in {None, Some("Candidate not found")} }
    \cup { [kind |-> "response", ok |-> TRUE, parses |-> TRUE, body |-> OkBody(1, 0, None)] }

\* ------------------------------------------------------------------ rendering

\* The branch of the render function that is taken (lines 149, 161, 178);
\* candidates.map at line 375 throws when candidates is not an array, and
\* the component is then gone.
View ==
    IF loading THEN "loading"
    ELSE IF Truthy(error) THEN "error"
    ELSE IF ~candidates.isArray THEN "crashed"
    ELSE "main"

\* showDuplicateModal && duplicateData, inside the main view.
DialogVisible == View = "main" /\ showDuplicateModal /\ duplicateData.some

\* The file input takes a change event: it is rendered, not disabled, and
\* not underneath the modal overlay (fixed inset-0 z-50).
FileInputEnabled == View = "main" /\ ~isUploading /\ ~DialogVisible

\* ------------------------------------------------------------------ pure helpers

EndsWith(s, suffix) ==
    /\ Len(s) >= Len(suffix)
    /\ \A i \in 1..Len(suffix) : s[Len(s) - Len(suffix) + i] = suffix[i]

\* file.name.match(/\.(csv|xlsx|xls)$/): no i flag, the match is case-sensitive
ValidFileName(name) ==
    \/ EndsWith(name, <<".", "c", "s", "v">>)
    \/ EndsWith(name, <<".", "x", "l", "s", "x">>)
    \/ EndsWith(name, <<".", "x", "l", "s">>)

\* contentType.includes('application/json')
Includes(ctype, token) == \E i \in 1..Len(ctype) : ctype[i] = token

\* The string an <option value={existing.id}> carries: the decimal digits.
DigitChars == <<"0", "1", "2", "3", "4", "5", "6", "7", "8", "9">>

RECURSIVE NumToStr(_)
NumToStr(n) ==
    IF n < 10 THEN << DigitChars[n + 1] >>
    ELSE Append(NumToStr(n \div 10), DigitChars[(n % 10) + 1])

IsDigit(c) == \E d \in 1..10 : DigitChars[d] = c
DigitValue(c) == (CHOOSE d \in 1..10 : DigitChars[d] = c) - 1

\* Stands for NaN; no id is negative.
NaN == 0 - 1

RECURSIVE LeadingDigits(_, _)
LeadingDigits(s, acc) ==
    IF s = << >> \/ ~IsDigit(Head(s)) THEN acc
    ELSE LeadingDigits(Tail(s), acc * 10 + DigitValue(Head(s)))

\* Variant of ParseInt that reads one digit only.
ParseIntFirstDigit(s) ==
    IF s = << >> \/ ~IsDigit(Head(s)) THEN NaN ELSE DigitValue(Head(s))

\* parseInt(e.target.value): the leading decimal digits, NaN when there are none
ParseInt(s) ==
    IF s = << >> \/ ~IsDigit(Head(s)) THEN NaN ELSE LeadingDigits(s, 0)

\* The object literal of lines 287-290.
UpdateDecision(item) ==
    [action |-> "update", existing_id |-> item.existing[1].id]

\* The object literal of line 304.
SkipDecision == [action |-> "skip"]

\* The object literal of lines 321-324, for the option of match k.
SelectDecision(item, k) ==
    [action |-> "update", existing_id |-> ParseInt(NumToStr(item.existing[k].id))]

\* { ...duplicateDecisions, [index]: d }
WithDecision(decisions, index, d) ==
    [j \in (DOMAIN decisions) \cup {index} |-> IF j = index THEN d ELSE decisions[j]]

\* Variant of DecisionEntry whose default is the decision the dialog displays.
DecisionEntryDefaultUpdate(item, decisions, index) ==
    LET decision == IF index \in DOMAIN decisions THEN decisions[index]
                    ELSE UpdateDecision(item)
    IN  IF "existing_id" \in DOMAIN decision
        THEN [new |-> item.new, action |-> decision.action,
              existing_id |-> decision.existing_id]
        ELSE [new |-> item.new, action |-> decision.action]

\* One element of the array of lines 114-121; an undefined existing_id is
\* dropped when the body is serialised.
DecisionEntry(item, decisions, index) ==
    LET decision == IF index \in DOMAIN decisions THEN decisions[index] ELSE SkipDecision
    IN  IF "existing_id" \in DOMAIN decision
        THEN [new |-> item.new, action |-> decision.action,
              existing_id |-> decision.existing_id]
        ELSE [new |-> item.new, action |-> decision.action]

\* Variant of BuildDecisions that maps over the recorded decisions instead
\* of the duplicates: rows without a decision are left out.
BuildDecisionsOfRecorded(data, decisions) ==
    LET keys == DOMAIN decisions
        Nth(n) == CHOOSE j \in keys : Cardinality({i \in keys : i < j}) = n - 1
    IN  [n \in 1..Cardinality(keys) |->
            [new |-> data[Nth(n)].new, action |-> decisions[Nth(n)].action]]

\* duplicateData.map((item, index) => ...)
BuildDecisions(data, decisions) ==
    [index \in 1..Len(data) |-> DecisionEntry(data[index], decisions, index)]

\* Template literals of lines 92 and 132.
CountsMessage(verb, body) ==
    "Successfully " \o verb \o " " \o ToString(body.success) \o " candidates. "
        \o ToString(body.errors) \o " errors."

StatusError(m) == Some([type |-> "error", message |-> m])
StatusSuccess(m) == Some([type |-> "success", message |-> m])

\* What a GET of the candidate list yields to its caller: the parsed body,
\* or the exception of api.get / response.json().  The status is not read.
GetOutcome(r) ==
    IF r.kind = "throw" THEN [thrown |-> TRUE, message |-> r.message, data |-> None]
    ELSE IF ~r.parses THEN [thrown |-> TRUE, message |-> JsonSyntaxError, data |-> None]
    ELSE [thrown |-> FALSE, message |-> "", data |-> Some(r.body)]

\* The try block of handleFileUpload up to its branch, lines 72-86.
UploadOutcome(r) ==
    IF r.kind = "throw" THEN [tag |-> "throw", message |-> r.message]
    ELSE IF ~r.ctype.some \/ ~Includes(r.ctype.val, "application/json")
        THEN [tag |-> "throw", message |-> "Server returned non-JSON response"]
    ELSE IF ~r.parses THEN [tag |-> "throw", message |-> JsonSyntaxError]
    ELSE IF ~r.ok THEN [tag |-> "throw", message |-> OrElse(r.body.error, "Upload failed")]
    ELSE IF r.body.duplicates.some /\ Len(r.body.duplicates.val) > 0
        THEN [tag |-> "duplicates", message |-> ""]
    ELSE [tag |-> "clean", message |-> ""]

\* The try block of handleDuplicateResolution after the request, lines 123-128.
ResolveOutcome(r) ==
    IF r.kind = "throw" THEN [tag |-> "throw", message |-> r.message]
    ELSE IF ~r.parses THEN [tag |-> "throw", message |-> JsonSyntaxError]
    ELSE IF ~r.ok
        THEN [tag |-> "throw", message |-> OrElse(r.body.error, "Failed to resolve duplicates")]
    ELSE [tag |-> "ok", message |-> ""]

\* ------------------------------------------------------------------ initial state

EmptyList == [isArray |-> TRUE, items |-> << >>]

\* The component right after mounting: the effect of lines 18-36 has run up
\* to its await.
Init ==
    /\ candidates = EmptyList
    /\ loading = TRUE
    /\ error = None
    /\ uploadStatus = None
    /\ isUploading = FALSE
    /\ showDuplicateModal = FALSE
    /\ duplicateData = None
    /\ duplicateDecisions = << >>
    /\ fetchPending = TRUE
    /\ uploadReq = {}
    /\ resolveReq = {}
    /\ refreshReq = {}
    /\ nUploads = 0
    /\ nResolves = 0
    /\ refreshLog = << >>
    /\ recv = [uid |-> 0, dups |-> << >>]
    /\ resolved = {}
    /\ clean = {}
    /\ last = [op |-> "mount"]

\* A continuation can still act on the view: the component has not been
\* torn down by a render that threw.
Mounted == View # "crashed"

\* ------------------------------------------------------------------ Data Loader

\* fetchCandidates from its await on: try, catch and finally (lines 22-32).
fetchCandidates(r) ==
    /\ fetchPending
    /\ LET o == GetOutcome(r)
       IN  IF o.thrown
           THEN /\ error' = Some(o.message)
                /\ candidates' = EmptyList
           ELSE /\ candidates' = o.data.val
                /\ error' = None
    /\ loading' = FALSE
    /\ fetchPending' = FALSE
    /\ last' = [op |-> "fetchCandidates"]
    /\ UNCHANGED <<uploadStatus, isUploading, showDuplicateModal, duplicateData,
                   duplicateDecisions, uploadReq, resolveReq, refreshReq, nUploads,
                   nResolves, refreshLog, recv, resolved, clean>>

\* The Retry button of the error state: window.location.reload() (line 168).
Reload ==
    /\ View = "error"
    /\ candidates' = EmptyList
    /\ loading' = TRUE
    /\ error' = None
    /\ uploadStatus' = None
    /\ isUploading' = FALSE
    /\ showDuplicateModal' = FALSE
    /\ duplicateData' = None
    /\ duplicateDecisions' = << >>
    /\ fetchPending' = TRUE
    /\ uploadReq' = {}
    /\ resolveReq' = {}
    /\ refreshReq' = {}
    /\ last' = [op |-> "Reload"]
    /\ UNCHANGED <<nUploads, nResolves, refreshLog, recv, resolved, clean>>

\* refreshCandidates() up to its await (line 40), called by issuer `by`.
refreshCandidates(by, owner) ==
    /\ refreshReq' = refreshReq \cup {[id |-> Len(refreshLog) + 1, by |-> by, owner |-> owner]}
    /\ refreshLog' = Append(refreshLog, [by |-> by, owner |-> owner])

\* refreshCandidates from its await on (lines 41-45); when handleFileUpload
\* awaited it, that handler's finally follows (line 103).
refreshCandidatesSettles(q, r) ==
    /\ q \in refreshReq
    /\ Mounted
    /\ LET o == GetOutcome(r)
       IN  candidates' = IF o.thrown THEN candidates ELSE o.data.val
    /\ isUploading' = IF q.by = "upload" THEN FALSE ELSE isUploading
    /\ refreshReq' = refreshReq \ {q}
    /\ last' = [op |-> "refreshCandidatesSettles"]
    /\ UNCHANGED <<loading, error, uploadStatus, showDuplicateModal, duplicateData,
                   duplicateDecisions, fetchPending, uploadReq, resolveReq, nUploads,
                   nResolves, refreshLog, recv, resolved, clean>>

\* ------------------------------------------------------------------ Upload Coordinator

\* handleFileUpload up to its first await or its early return (lines 49-72).
handleFileUpload(name) ==
    /\ FileInputEnabled
    /\ uploadStatus' = IF ValidFileName(name) THEN None
                       ELSE StatusError("Please upload a CSV or Excel file")
    /\ duplicateData' = None
    /\ duplicateDecisions' = << >>
    /\ IF ValidFileName(name)
       THEN /\ nUploads + nResolves < MaxRequests
            /\ isUploading' = TRUE
            /\ nUploads' = nUploads + 1
            /\ uploadReq' = uploadReq \cup {nUploads + 1}
       ELSE /\ isUploading' = FALSE
            /\ UNCHANGED <<nUploads, uploadReq>>
    /\ last' = [op |-> "handleFileUpload"]
    /\ UNCHANGED <<candidates, loading, error, showDuplicateModal, fetchPending,
                   resolveReq, refreshReq, nResolves, refreshLog, recv, resolved, clean>>

\* Variant of UploadCatchFinally without the finally block.
UploadCatchOnly(message) ==
    /\ uploadStatus' = StatusError(OrElse(Some(message),
                                          "Failed to upload file. Please try again."))
    /\ UNCHANGED <<candidates, isUploading, showDuplicateModal, duplicateData,
                   duplicateDecisions, refreshReq, refreshLog>>

\* catch and finally of handleFileUpload (lines 97-106).
UploadCatchFinally(message) ==
    /\ uploadStatus' = StatusError(OrElse(Some(message),
                                          "Failed to upload file. Please try again."))
    /\ isUploading' = FALSE
    /\ UNCHANGED <<candidates, showDuplicateModal, duplicateData, duplicateDecisions,
                   refreshReq, refreshLog>>

\* The upload request settles and the try block throws.
handleFileUploadThrows(u, r) ==
    /\ u \in uploadReq
    /\ Mounted
    /\ UploadOutcome(r).tag = "throw"
    /\ UploadCatchFinally(UploadOutcome(r).message)
    /\ uploadReq' = uploadReq \ {u}
    /\ last' = [op |-> "handleFileUploadThrows"]
    /\ UNCHANGED <<loading, error, fetchPending, resolveReq, nUploads, nResolves,
                   recv, resolved, clean>>

\* Variant of OpenDuplicateDialog that refreshes after either branch.
OpenDuplicateDialogAndRefresh(dups) ==
    /\ duplicateData' = Some(dups)
    /\ showDuplicateModal' = TRUE
    /\ refreshCandidates("upload", nUploads)
    /\ UNCHANGED <<candidates, uploadStatus, isUploading, duplicateDecisions>>

\* The duplicates branch (lines 87-88) and finally (line 103).
OpenDuplicateDialog(dups) ==
    /\ duplicateData' = Some(dups)
    /\ showDuplicateModal' = TRUE
    /\ isUploading' = FALSE
    /\ UNCHANGED <<candidates, uploadStatus, duplicateDecisions, refreshReq, refreshLog>>

\* The upload request settles with duplicates to resolve.
handleFileUploadDuplicates(u, r) ==
    /\ u \in uploadReq
    /\ Mounted
    /\ UploadOutcome(r).tag = "duplicates"
    /\ OpenDuplicateDialog(r.body.duplicates.val)
    /\ uploadReq' = uploadReq \ {u}
    /\ recv' = [uid |-> u, dups |-> r.body.duplicates.val]
    /\ last' = [op |-> "handleFileUploadDuplicates"]
    /\ UNCHANGED <<loading, error, fetchPending, resolveReq, nUploads, nResolves,
                   resolved, clean>>

\* Variant of ReportAndRefresh that reports and does not refresh.
ReportWithoutRefresh(u, body) ==
    /\ uploadStatus' = StatusSuccess(CountsMessage("added", body))
    /\ isUploading' = FALSE
    /\ UNCHANGED <<candidates, showDuplicateModal, duplicateData, duplicateDecisions,
                   refreshReq, refreshLog>>

\* The else branch up to the await of refreshCandidates (lines 90-95).
ReportAndRefresh(u, body) ==
    /\ uploadStatus' = StatusSuccess(CountsMessage("added", body))
    /\ refreshCandidates("upload", u)
    /\ UNCHANGED <<candidates, isUploading, showDuplicateModal, duplicateData,
                   duplicateDecisions>>

\* The upload request settles without duplicates.
handleFileUploadSuccess(u, r) ==
    /\ u \in uploadReq
    /\ Mounted
    /\ UploadOutcome(r).tag = "clean"
    /\ ReportAndRefresh(u, r.body)
    /\ uploadReq' = uploadReq \ {u}
    /\ clean' = clean \cup {u}
    /\ last' = [op |-> "handleFileUploadSuccess"]
    /\ UNCHANGED <<loading, error, fetchPending, resolveReq, nUploads, nResolves,
                   recv, resolved>>

\* ------------------------------------------------------------------ Duplicate Resolver

\* The closing handlers of lines 222-226 and 342-346.
Cancel ==
    /\ DialogVisible
    /\ showDuplicateModal' = FALSE
    /\ duplicateData' = None
    /\ duplicateDecisions' = << >>
    /\ last' = [op |-> "Cancel"]
    /\ UNCHANGED <<candidates, loading, error, uploadStatus, isUploading, fetchPending,
                   uploadReq, resolveReq, refreshReq, nUploads, nResolves, refreshLog,
                   recv, resolved, clean>>

\* checked of the two radios of row index (lines 284 and 301).
UpdateChecked(index) ==
    \/ index \notin DOMAIN duplicateDecisions
    \/ duplicateDecisions[index].action = "update"
SkipChecked(index) ==
    /\ index \in DOMAIN duplicateDecisions
    /\ duplicateDecisions[index].action = "skip"

\* The selector of row index is rendered (line 312).
SelectorShown(index) ==
    /\ index \in DOMAIN duplicateDecisions
    /\ duplicateDecisions[index].action = "update"
    /\ Len(duplicateData.val[index].existing) > 1

\* A dialog control stores decision d for row index.
Record(index, d, op, k) ==
    /\ duplicateDecisions' = WithDecision(duplicateDecisions, index, d)
    /\ last' = [op |-> op, index |-> index, k |-> k]
    /\ UNCHANGED <<candidates, loading, error, uploadStatus, isUploading,
                   showDuplicateModal, duplicateData, fetchPending, uploadReq,
                   resolveReq, refreshReq, nUploads, nResolves, refreshLog, recv,
                   resolved, clean>>

\* onChange of the "update" radio (lines 285-291): it fires when the radio
\* becomes checked.
ChooseUpdate(index) ==
    /\ DialogVisible
    /\ index \in 1..Len(duplicateData.val)
    /\ ~UpdateChecked(index)
    /\ Record(index, UpdateDecision(duplicateData.val[index]), "ChooseUpdate", 0)

\* onChange of the "skip" radio (lines 302-305).
ChooseSkip(index) ==
    /\ DialogVisible
    /\ index \in 1..Len(duplicateData.val)
    /\ ~SkipChecked(index)
    /\ Record(index, SkipDecision, "ChooseSkip", 0)

\* onChange of the match selector (lines 319-325): another option is chosen.
SelectMatch(index, k) ==
    /\ DialogVisible
    /\ index \in 1..Len(duplicateData.val)
    /\ SelectorShown(index)
    /\ k \in 1..Len(duplicateData.val[index].existing)
    /\ duplicateData.val[index].existing[k].id # duplicateDecisions[index].existing_id
    /\ Record(index, SelectDecision(duplicateData.val[index], k), "SelectMatch", k)

\* handleDuplicateResolution up to its await (lines 110-123).
handleDuplicateResolution ==
    /\ DialogVisible
    /\ nUploads + nResolves < MaxRequests
    /\ nResolves' = nResolves + 1
    /\ resolveReq' = resolveReq \cup
           { [id |-> nResolves + 1,
              decisions |-> BuildDecisions(duplicateData.val, duplicateDecisions),
              uid |-> recv.uid] }
    /\ last' = [op |-> "handleDuplicateResolution"]
    /\ UNCHANGED <<candidates, loading, error, uploadStatus, isUploading,
                   showDuplicateModal, duplicateData, duplicateDecisions, fetchPending,
                   uploadReq, refreshReq, nUploads, refreshLog, recv, resolved, clean>>

\* Variant of ResolveCatch that cleans up the dialog as the success path does.
ResolveCatchClosing(message) ==
    /\ uploadStatus' = StatusError(OrElse(Some(message),
                                          "Failed to resolve duplicates. Please try again."))
    /\ showDuplicateModal' = FALSE
    /\ duplicateData' = None
    /\ duplicateDecisions' = << >>
    /\ UNCHANGED <<candidates, isUploading, refreshReq, refreshLog>>

\* catch of handleDuplicateResolution (lines 140-145).
ResolveCatch(message) ==
    /\ uploadStatus' = StatusError(OrElse(Some(message),
                                          "Failed to resolve duplicates. Please try again."))
    /\ UNCHANGED <<candidates, isUploading, showDuplicateModal, duplicateData,
                   duplicateDecisions, refreshReq, refreshLog>>

\* The resolve request settles and the try block throws.
handleDuplicateResolutionThrows(q, r) ==
    /\ q \in resolveReq
    /\ Mounted
    /\ ResolveOutcome(r).tag = "throw"
    /\ ResolveCatch(ResolveOutcome(r).message)
    /\ resolveReq' = resolveReq \ {q}
    /\ last' = [op |-> "handleDuplicateResolutionThrows"]
    /\ UNCHANGED <<loading, error, fetchPending, uploadReq, nUploads, nResolves,
                   recv, resolved, clean>>

\* The success path up to the await of refreshCandidates (lines 130-139).
CloseAndRefresh(q, body) ==
    /\ uploadStatus' = StatusSuccess(CountsMessage("processed", body))
    /\ showDuplicateModal' = FALSE
    /\ duplicateData' = None
    /\ duplicateDecisions' = << >>
    /\ refreshCandidates("resolve", q.id)
    /\ UNCHANGED <<candidates, isUploading>>

\* The resolve request settles successfully.
handleDuplicateResolutionSuccess(q, r) ==
    /\ q \in resolveReq
    /\ Mounted
    /\ ResolveOutcome(r).tag = "ok"
    /\ CloseAndRefresh(q, r.body)
    /\ resolveReq' = resolveReq \ {q}
    /\ resolved' = resolved \cup {q.uid}
    /\ last' = [op |-> "handleDuplicateResolutionSuccess"]
    /\ UNCHANGED <<loading, error, fetchPending, uploadReq, nUploads, nResolves,
                   recv, clean>>

\* ------------------------------------------------------------------ specification

\* Row and match positions that occur in the arrays above.
Rows == UNION { DOMAIN a : a \in DupArrays }
Matches == UNION { UNION { DOMAIN a[i].existing : i \in DOMAIN a } : a \in DupArrays }

Next ==
    \/ \E r \in GetResponses : fetchCandidates(r)
    \/ Reload
    \/ \E q \in refreshReq, r \in GetResponses : refreshCandidatesSettles(q, r)
    \/ \E name \in FileNames : handleFileUpload(name)
    \/ \E u \in uploadReq, r \in UploadResponses : handleFileUploadThrows(u, r)
    \/ \E u \in uploadReq, r \in UploadResponses : handleFileUploadDuplicates(u, r)
    \/ \E u \in uploadReq, r \in UploadResponses : handleFileUploadSuccess(u, r)
    \/ Cancel
    \/ \E index \in Rows : ChooseUpdate(index)
    \/ \E index \in Rows : ChooseSkip(index)
    \/ \E index \in Rows, k \in Matches : SelectMatch(index, k)
    \/ handleDuplicateResolution
    \/ \E q \in resolveReq, r \in ResolveResponses : handleDuplicateResolutionThrows(q, r)
    \/ \E q \in resolveReq, r \in ResolveResponses : handleDuplicateResolutionSuccess(q, r)

Spec == Init /\ [][Next]_vars

\* ------------------------------------------------------------------ claims

\* The request the last click on "Process Selected Actions" sent.
Submitted == CHOOSE q \in resolveReq : q.id = nResolves

\* The ids of the existing matches of one duplicate row.
MatchIds(item) == { item.existing[k].id : k \in 1..Len(item.existing) }

\* C1: whenever handleDuplicateResolution submits, the decisions array is as
\* long as the duplicates array the upload returned, and entry i carries
\* the `new` payload of duplicates[i], whichever rows have a decision.
C1_DecisionsMirrorDuplicates ==
    last.op = "handleDuplicateResolution" =>
        /\ DOMAIN Submitted.decisions = 1..Len(recv.dups)
        /\ \A i \in 1..Len(recv.dups) : Submitted.decisions[i].new = recv.dups[i].new

\* C1 witness: a two-row array is submitted with a decision for the second
\* row only.
C1_Witness ==
    /\ last.op = "handleDuplicateResolution"
    /\ Len(recv.dups) = 2
    /\ DOMAIN duplicateDecisions = {2}
    /\ Len(Submitted.decisions) = 2

\* C9: at submission a row without a recorded decision is sent as skip
\* without existing_id, also when its "update" radio is displayed checked,
\* and a row with one is sent with the action recorded for it; a radio or
\* selector records its own action for its row.
C9_UnsetRowsAreSkipped ==
    /\ last.op = "handleDuplicateResolution" =>
           \A i \in 1..Len(recv.dups) :
               IF i \in DOMAIN duplicateDecisions
               THEN Submitted.decisions[i].action = duplicateDecisions[i].action
               ELSE /\ UpdateChecked(i)
                    /\ Submitted.decisions[i].action = "skip"
                    /\ "existing_id" \notin DOMAIN Submitted.decisions[i]
    /\ last.op = "ChooseSkip" => duplicateDecisions[last.index].action = "skip"
    /\ last.op \in {"ChooseUpdate", "SelectMatch"} =>
           duplicateDecisions[last.index].action = "update"

\* C9 witness: one row untouched and displayed as update, the other set to
\* update, both submitted.
C9_Witness ==
    /\ last.op = "handleDuplicateResolution"
    /\ DOMAIN duplicateDecisions = {2}
    /\ duplicateDecisions[2].action = "update"
    /\ UpdateChecked(1)
    /\ Submitted.decisions[1].action = "skip"
    /\ Submitted.decisions[2].action = "update"

ResolveSettlesWith(q, r) == handleDuplicateResolutionThrows(q, r) \/ handleDuplicateResolutionSuccess(q, r)
UploadSettlesWith(u, r) ==
    handleFileUploadThrows(u, r) \/ handleFileUploadDuplicates(u, r) \/ handleFileUploadSuccess(u, r)

\* A transport error or a non-success status.
RequestFailed(r) == r.kind = "throw" \/ ~r.ok

\* The response is not JSON by its content type.
NonJson(r) ==
    r.kind = "response" /\ (~r.ctype.some \/ ~Includes(r.ctype.val, "application/json"))

RefreshIssued == Len(refreshLog') > Len(refreshLog)

\* C7: when a resolve-duplicates request fails, the status becomes an error
\* with the failure message, no refresh is triggered, and the dialog, the
\* duplicate list and the recorded decisions are as they were.
C7_ResolveFailureKeepsDialog ==
    [][\A q \in resolveReq, r \in ResolveResponses :
           (RequestFailed(r) /\ ResolveSettlesWith(q, r)) =>
               /\ uploadStatus'.some /\ uploadStatus'.val.type = "error"
               /\ r.kind = "throw" /\ r.message # "" => uploadStatus'.val.message = r.message
               /\ r.kind = "response" /\ r.parses =>
                      uploadStatus'.val.message
                          = OrElse(r.body.error, "Failed to resolve duplicates")
               /\ DialogVisible => DialogVisible'
               /\ showDuplicateModal' = showDuplicateModal
               /\ duplicateData' = duplicateData
               /\ duplicateDecisions' = duplicateDecisions
               /\ ~RefreshIssued /\ refreshReq' = refreshReq]_vars

\* C7 witness: a resolve request has just failed, the dialog is open and
\* holds a decision.
C7_Witness ==
    /\ last.op = "handleDuplicateResolutionThrows"
    /\ DialogVisible
    /\ duplicateDecisions # << >>
    /\ uploadStatus = StatusError("Candidate not found")

\* C8: an upload that fails after the network call ends with an error
\* status ("Server returned non-JSON response" for a non-JSON content type
\* whatever the status, the body's error field or "Upload failed" for a JSON
\* body with a non-success status), the dialog not shown, no refresh
\* triggered, the candidate list unchanged and isUploading false.
C8_UploadFailureIsReported ==
    [][\A u \in uploadReq, r \in UploadResponses :
           ((RequestFailed(r) \/ NonJson(r)) /\ UploadSettlesWith(u, r)) =>
               /\ uploadStatus'.some /\ uploadStatus'.val.type = "error"
               /\ NonJson(r) =>
                      uploadStatus'.val.message = "Server returned non-JSON response"
               /\ r.kind = "response" /\ ~NonJson(r) /\ r.parses =>
                      uploadStatus'.val.message = OrElse(r.body.error, "Upload failed")
               /\ ~DialogVisible'
               /\ showDuplicateModal' = showDuplicateModal
               /\ ~RefreshIssued /\ refreshReq' = refreshReq
               /\ candidates' = candidates
               /\ isUploading' = FALSE]_vars

\* C8 witness: an upload has just failed on a non-JSON response.
C8_Witness ==
    /\ last.op = "handleFileUploadThrows"
    /\ uploadStatus = StatusError("Server returned non-JSON response")
    /\ ~isUploading

\* Refresh GETs that the handler of upload u issued.
RefreshesOf(u) ==
    Cardinality({ n \in 1..Len(refreshLog) : refreshLog[n] = [by |-> "upload", owner |-> u] })

\* C3: an upload answered successfully without duplicates triggers exactly
\* one refresh, and from its start until the next upload begins the dialog
\* is not visible.
C3_CleanUploadRefreshesOnce ==
    /\ \A u \in clean : RefreshesOf(u) = 1
    /\ \A u \in 1..nUploads : u \notin clean /\ u \notin uploadReq => RefreshesOf(u) = 0
    /\ nUploads \in (clean \cup uploadReq) => ~DialogVisible

\* C3 witness: a clean upload has run to its end, refresh included.
C3_Witness ==
    /\ nUploads \in clean
    /\ last.op = "refreshCandidatesSettles"
    /\ ~isUploading
    /\ refreshReq = {}
    /\ View = "main"

\* The latest duplicates array an upload returned has not been resolved.
Pending == recv.uid # 0 /\ recv.uid \notin resolved

\* C2 as stated: an upload answered with duplicates opens the dialog on
\* exactly that array, and from then on no refresh is issued until a
\* resolution of that array has completed successfully.
C2_NoRefreshBeforeResolution ==
    [][/\ \A u \in uploadReq, r \in UploadResponses :
              handleFileUploadDuplicates(u, r) =>
                  DialogVisible' /\ duplicateData' = Some(r.body.duplicates.val)
       /\ RefreshIssued => (~Pending \/ ~Pending')]_vars

\* C2 as amended: an upload answered with duplicates stores exactly that
\* array as the dialog's data, opens the dialog and issues no refresh; while
\* the dialog stays open on an array, a refresh is issued only by a resolve
\* request settling successfully, which closes the dialog.
C2_NoRefreshWhileDialogOpen ==
    [][/\ \A u \in uploadReq, r \in UploadResponses :
              handleFileUploadDuplicates(u, r) =>
                  /\ DialogVisible' /\ duplicateData' = Some(r.body.duplicates.val)
                  /\ ~RefreshIssued
       /\ (DialogVisible /\ RefreshIssued) =>
              /\ \E q \in resolveReq, r \in ResolveResponses :
                     ~RequestFailed(r) /\ handleDuplicateResolutionSuccess(q, r)
              /\ ~DialogVisible']_vars

\* C2 witness: the dialog has just opened on a two-row array.
C2_Witness ==
    /\ last.op = "handleFileUploadDuplicates"
    /\ DialogVisible
    /\ duplicateData = Some(<<RowOne, RowTwo>>)
    /\ refreshLog = << >>

LowerChar(c) ==
    CASE c = "C" -> "c" [] c = "S" -> "s" [] c = "V" -> "v" [] c = "X" -> "x"
      [] c = "L" -> "l" [] c = "R" -> "r" [] OTHER -> c

Lower(name) == [i \in 1..Len(name) |-> LowerChar(name[i])]

\* The name ends in .csv, .xlsx or .xls, compared case-insensitively.
AcceptedAnyCase(name) ==
    \/ EndsWith(Lower(name), <<".", "c", "s", "v">>)
    \/ EndsWith(Lower(name), <<".", "x", "l", "s", "x">>)
    \/ EndsWith(Lower(name), <<".", "x", "l", "s">>)

\* C4: handleFileUpload issues the upload request exactly for the names
\* that end in .csv, .xlsx or .xls in any case; for every other name it
\* issues none and sets the validation error.
C4_ExtensionAnyCase ==
    [][\A name \in FileNames :
           handleFileUpload(name) =>
               /\ (uploadReq' # uploadReq) <=> AcceptedAnyCase(name)
               /\ ~AcceptedAnyCase(name) =>
                      uploadStatus' = StatusError("Please upload a CSV or Excel file")]_vars

\* C5: at most one upload request and at most one resolve-duplicates
\* request is outstanding at any time.
C5_OneRequestPerAction ==
    /\ Cardinality(uploadReq) <= 1
    /\ Cardinality(resolveReq) <= 1

\* C6: if the initial GET fails (transport error, unparsable body, or a
\* non-success status), then once loading ends the view is in the error
\* state with the failure message and an empty collection, the table not
\* rendered.
C6_LoadFailureShowsError ==
    [][\A r \in GetResponses :
           ((r.kind = "throw" \/ ~r.parses \/ ~r.ok) /\ fetchCandidates(r)) =>
               /\ ~loading'
               /\ View' = "error"
               /\ Truthy(error')
               /\ candidates' = EmptyList]_vars

====
